---- MODULE Spec2Model ----
(***************************************************************************)
(* Model of streamlit_app.py: the Streamlit script that uploads an image   *)
(* or a PDF, preprocesses each image, runs the OCR engine on it and shows  *)
(* the extracted text.                                                     *)
(*                                                                         *)
(* A Python string is a sequence of tokens (each token a TLA+ string): the *)
(* literal pieces of the f-strings are one token each, a decimal digit is  *)
(* one token, and a character of recognised text is one token drawn from   *)
(* Alphabet.  The text alphabet is disjoint from the literal pieces: the   *)
(* recognised text is taken not to contain a page header line of its own.  *)
(* None is a value different from every string.  The calls into the GUI    *)
(* toolkit (st.error, st.progress, ...) are taken to return normally; the  *)
(* calls into PIL, OpenCV, pdf2image and Tesseract may raise.              *)
(***************************************************************************)
EXTENDS Integers, Sequences, FiniteSets

\* ---------------------------------------------------------------- bounds
MaxPages == 3
MaxTextLen == 2

\* ------------------------------------------------------------- values
Alphabet == {"a"}

None == <<"<None>">>

NoImage == [id |-> 0, steps |-> <<>>]

RECURSIVE StringsUpTo(_)
StringsUpTo(n) ==
    IF n = 0 THEN {<<>>}
    ELSE LET shorter == StringsUpTo(n - 1)
         IN  shorter \cup {Append(s, c) : s \in {t \in shorter : Len(t) = n - 1}, c \in Alphabet}

\* what pytesseract.image_to_string can return
Texts == StringsUpTo(MaxTextLen)

\* falsy values of "if page_text:" are None and the empty string
Truthy(s) == s # None /\ s # <<>>

Digit == <<"0", "1", "2", "3", "4", "5", "6", "7", "8", "9">>

IsDigit(t) == \E d \in 1..10 : Digit[d] = t

DigitVal(t) == (CHOOSE d \in 1..10 : Digit[d] = t) - 1

\* str(n) of a non-negative int, as the f-string formats page_num
RECURSIVE Str(_)
Str(n) == IF n < 10 THEN <<Digit[n + 1]>>
          ELSE Str(n \div 10) \o <<Digit[(n % 10) + 1]>>

IsPrefix(s, t) == Len(s) <= Len(t) /\ SubSeq(t, 1, Len(s)) = s

Last(s) == s[Len(s)]

\* the literal pieces of the f-strings on lines 120 and 123
PageHdr == "--- Page "
OkTail == " ---\n"
FailTail == " (OCR Failed or No Text Detected) ---\n\n"
SectionEnd == "\n\n"

\* the section appended for one page (lines 119-123)
PageSectionHeaderFromIndex(page_num, page_text) ==
    IF Truthy(page_text)
    THEN <<PageHdr>> \o Str(page_num - 1) \o <<OkTail>> \o page_text \o <<SectionEnd>>
    ELSE <<PageHdr>> \o Str(page_num - 1) \o <<FailTail>>

PageSection(page_num, page_text) ==
    IF Truthy(page_text)
    THEN <<PageHdr>> \o Str(page_num) \o <<OkTail>> \o page_text \o <<SectionEnd>>
    ELSE <<PageHdr>> \o Str(page_num) \o <<FailTail>>

\* the status line of line 116
ProcessingStatus(page_num, total) ==
    <<"Processing Page ">> \o Str(page_num) \o <<"/">> \o Str(total) \o <<"...">>

CompleteStatus == <<"PDF Processing Complete.">>

\* the three steps of preprocess_image, in the order of lines 41, 45, 53
PreprocessSteps == <<"convert_L", "adaptiveThreshold", "SHARPEN">>

\* the messages the script can show
WarnPreprocess == [level |-> "warning", text |-> "An error occurred during image preprocessing"]
ErrTesseract == [level |-> "error", text |-> "Tesseract executable not found."]
ErrOcr == [level |-> "error", text |-> "An error occurred during OCR processing"]
WarnNoImages == [level |-> "warning", text |-> "Could not extract any images from the PDF."]
ErrImport == [level |-> "error", text |-> "The 'pdf2image' or 'PIL' library is not installed."]
ErrConvert == [level |-> "error", text |-> "Error converting PDF to images"]
ErrPdfUnexpected == [level |-> "error", text |-> "An unexpected error occurred during PDF processing"]
ErrBeforeOcr == [level |-> "error", text |-> "An error occurred before OCR could start"]
WarnNoText == [level |-> "warning", text |-> "OCR processing complete, but no text was detected in the file."]

\* exceptions the OCR engine call can raise, as the handlers tell them apart
OcrExceptions == {"TesseractNotFoundError", "Exception"}

\* exceptions convert_from_bytes can raise, as the handlers tell them apart
PdfExceptions == {"ImportError", "PDFError", "Exception"}

\* the pages pdf2image returns for a PDF of n pages
Pages(n) == [k \in 1..n |-> [id |-> k, steps |-> <<>>]]

VARIABLES
    file_type,          \* the radio selection
    uploaded_file,      \* "None" or the kind of file in the uploader
    pc,                 \* position of the script
    exc,                \* the exception being handled, "None" if none
    extracted_text,     \* module level extracted_text (line 203)
    image,              \* the image being processed (lines 114, 212)
    image_obj,          \* argument of perform_ocr_on_image / preprocess_image
    image_np,           \* the image inside preprocess_image
    preprocessed_image, \* line 72
    text,               \* return value of perform_ocr_on_image
    images,             \* line 103
    total_pages,        \* line 110
    i,                  \* enumerate index of line 114
    page_text,          \* line 118
    pdf_text,           \* extracted_text local to perform_ocr_on_pdf
    progress_bar,       \* the values given to the progress bar, oldest first
    status_text,        \* the text of the status placeholder, None if absent
    messages,           \* the st.error / st.warning messages shown, in order
    result_area,        \* content of the "Extracted Text" area, None if absent
    engine_log,         \* the calls of pytesseract.image_to_string, in order
    raster_log          \* the calls of convert_from_bytes, in order

vars == <<file_type, uploaded_file, pc, exc, extracted_text, image, image_obj,
          image_np, preprocessed_image, text, images, total_pages, i, page_text,
          pdf_text, progress_bar, status_text, messages, result_area,
          engine_log, raster_log>>

runVars == <<exc, extracted_text, image, image_obj, image_np, preprocessed_image,
             text, images, total_pages, i, page_text, pdf_text, progress_bar,
             status_text, messages, result_area, engine_log, raster_log>>

\* a rerun of the script starts from an empty page and fresh locals
FreshRun ==
    /\ exc' = "None"
    /\ extracted_text' = None
    /\ image' = NoImage
    /\ image_obj' = NoImage
    /\ image_np' = NoImage
    /\ preprocessed_image' = NoImage
    /\ text' = None
    /\ images' = <<>>
    /\ total_pages' = 0
    /\ i' = 0
    /\ page_text' = None
    /\ pdf_text' = <<>>
    /\ progress_bar' = <<>>
    /\ status_text' = None
    /\ messages' = <<>>
    /\ result_area' = None
    /\ engine_log' = <<>>
    /\ raster_log' = <<>>

Init ==
    /\ file_type = "Image"
    /\ uploaded_file = "None"
    /\ pc = "idle"
    /\ exc = "None"
    /\ extracted_text = None
    /\ image = NoImage
    /\ image_obj = NoImage
    /\ image_np = NoImage
    /\ preprocessed_image = NoImage
    /\ text = None
    /\ images = <<>>
    /\ total_pages = 0
    /\ i = 0
    /\ page_text = None
    /\ pdf_text = <<>>
    /\ progress_bar = <<>>
    /\ status_text = None
    /\ messages = <<>>
    /\ result_area = None
    /\ engine_log = <<>>
    /\ raster_log = <<>>

Waiting == pc \in {"idle", "done"}

\* ------------------------------------------------------ user interaction
\* lines 177-182: the radio button; the other uploader starts empty
SelectFileType ==
    /\ Waiting
    /\ \E ft \in {"Image", "PDF"} :
          /\ ft # file_type
          /\ file_type' = ft
    /\ uploaded_file' = "None"
    /\ pc' = "idle"
    /\ FreshRun

\* lines 185-197: a file is put in the uploader of the selected type
UploadFile ==
    /\ Waiting
    /\ uploaded_file' = file_type
    /\ pc' = "idle"
    /\ FreshRun
    /\ UNCHANGED file_type

\* lines 200-205: the Process button is clicked
ClickProcess ==
    /\ Waiting
    /\ uploaded_file # "None"
    /\ pc' = "getvalue"
    /\ FreshRun
    /\ UNCHANGED <<file_type, uploaded_file>>

\* lines 208-210, 218: read the bytes and branch on the file type
GetValue ==
    /\ pc = "getvalue"
    /\ pc' = IF file_type = "Image" THEN "image_open" ELSE "convert_from_bytes"
    /\ UNCHANGED <<file_type, uploaded_file>>
    /\ UNCHANGED runVars

\* ------------------------------------------------------- the image branch
\* line 212: Image.open decodes the bytes, or raises
ImageOpen ==
    /\ pc = "image_open"
    /\ \E ok \in BOOLEAN :
          IF ok
          THEN /\ image' = [id |-> 1, steps |-> <<>>]
               /\ pc' = "st_image"
               /\ UNCHANGED exc
          ELSE /\ exc' = "Exception"
               /\ pc' = "main_except"
               /\ UNCHANGED image
    /\ UNCHANGED <<file_type, uploaded_file, extracted_text, image_obj, image_np,
                   preprocessed_image, text, images, total_pages, i, page_text,
                   pdf_text, progress_bar, status_text, messages, result_area,
                   engine_log, raster_log>>

\* lines 214-216: show the uploaded image, then call perform_ocr_on_image
ShowImage ==
    /\ pc = "st_image"
    /\ \E ok \in BOOLEAN :
          IF ok
          THEN /\ image_obj' = image
               /\ pc' = "convert_L"
               /\ UNCHANGED exc
          ELSE /\ exc' = "Exception"
               /\ pc' = "main_except"
               /\ UNCHANGED image_obj
    /\ UNCHANGED <<file_type, uploaded_file, extracted_text, image, image_np,
                   preprocessed_image, text, images, total_pages, i, page_text,
                   pdf_text, progress_bar, status_text, messages, result_area,
                   engine_log, raster_log>>

\* lines 222-223 with no message, the handler a bare "pass" would give
MainExceptSilent ==
    /\ pc = "main_except"
    /\ exc' = "None"
    /\ pc' = "display"
    /\ UNCHANGED <<file_type, uploaded_file, extracted_text, image, image_obj,
                   image_np, preprocessed_image, text, images, total_pages, i,
                   page_text, pdf_text, progress_bar, status_text, messages,
                   result_area, engine_log, raster_log>>

\* lines 222-223: anything raised in the try block of line 206
MainExcept ==
    /\ pc = "main_except"
    /\ messages' = Append(messages, ErrBeforeOcr)
    /\ exc' = "None"
    /\ pc' = "display"
    /\ UNCHANGED <<file_type, uploaded_file, extracted_text, image, image_obj,
                   image_np, preprocessed_image, text, images, total_pages, i,
                   page_text, pdf_text, progress_bar, status_text, result_area,
                   engine_log, raster_log>>

\* ------------------------------------------------------ preprocess_image
\* one step of the try block of preprocess_image: apply it or raise
PreprocessStep(here, step, next) ==
    /\ pc = here
    /\ \E ok \in BOOLEAN :
          IF ok
          THEN /\ image_np' = [(IF here = "convert_L" THEN image_obj ELSE image_np)
                                  EXCEPT !.steps = Append(@, step)]
               /\ pc' = next
               /\ UNCHANGED exc
          ELSE /\ exc' = "Exception"
               /\ pc' = "preprocess_except"
               /\ UNCHANGED image_np
    /\ UNCHANGED <<file_type, uploaded_file, extracted_text, image, image_obj,
                   preprocessed_image, text, images, total_pages, i, page_text,
                   pdf_text, progress_bar, status_text, messages, result_area,
                   engine_log, raster_log>>

\* perform_ocr_on_image as in the version of the script without
\* preprocessing: the engine is called on the image as given
NoPreprocessing ==
    /\ pc = "convert_L"
    /\ preprocessed_image' = image_obj
    /\ pc' = "image_to_string"
    /\ UNCHANGED <<file_type, uploaded_file, exc, extracted_text, image, image_obj,
                   image_np, text, images, total_pages, i, page_text, pdf_text,
                   progress_bar, status_text, messages, result_area, engine_log,
                   raster_log>>

\* line 41
ConvertGray == PreprocessStep("convert_L", "convert_L", "adaptiveThreshold")

\* lines 44-50
AdaptiveThreshold == PreprocessStep("adaptiveThreshold", "adaptiveThreshold", "SHARPEN")

\* line 53
Sharpen == PreprocessStep("SHARPEN", "SHARPEN", "preprocess_return")

\* lines 55, 72: return the preprocessed image to perform_ocr_on_image
PreprocessReturn ==
    /\ pc = "preprocess_return"
    /\ preprocessed_image' = image_np
    /\ pc' = "image_to_string"
    /\ UNCHANGED <<file_type, uploaded_file, exc, extracted_text, image, image_obj,
                   image_np, text, images, total_pages, i, page_text, pdf_text,
                   progress_bar, status_text, messages, result_area, engine_log,
                   raster_log>>

\* preprocess_image without its try block: the exception reaches the
\* handlers of perform_ocr_on_image
PreprocessExceptPropagate ==
    /\ pc = "preprocess_except"
    /\ pc' = "ocr_except"
    /\ UNCHANGED <<file_type, uploaded_file, exc, extracted_text, image, image_obj,
                   image_np, preprocessed_image, text, images, total_pages, i,
                   page_text, pdf_text, progress_bar, status_text, messages,
                   result_area, engine_log, raster_log>>

\* lines 56-58, 72: warn and return the original image
PreprocessExcept ==
    /\ pc = "preprocess_except"
    /\ messages' = Append(messages, WarnPreprocess)
    /\ preprocessed_image' = image_obj
    /\ exc' = "None"
    /\ pc' = "image_to_string"
    /\ UNCHANGED <<file_type, uploaded_file, extracted_text, image, image_obj,
                   image_np, text, images, total_pages, i, page_text, pdf_text,
                   progress_bar, status_text, result_area, engine_log, raster_log>>

\* --------------------------------------------------- perform_ocr_on_image
\* lines 75-76: the OCR engine returns a text or raises
ImageToString ==
    /\ pc = "image_to_string"
    /\ \/ \E out \in Texts :
             /\ engine_log' = Append(engine_log,
                    [image |-> preprocessed_image, exc |-> "None", text |-> out])
             /\ text' = out
             /\ pc' = "ocr_return"
             /\ UNCHANGED exc
       \/ \E e \in OcrExceptions :
             /\ engine_log' = Append(engine_log,
                    [image |-> preprocessed_image, exc |-> e, text |-> <<>>])
             /\ exc' = e
             /\ pc' = "ocr_except"
             /\ UNCHANGED text
    /\ UNCHANGED <<file_type, uploaded_file, extracted_text, image, image_obj,
                   image_np, preprocessed_image, images, total_pages, i, page_text,
                   pdf_text, progress_bar, status_text, messages, result_area,
                   raster_log>>

\* perform_ocr_on_image without its handlers: the exception reaches the
\* caller's handler (line 144 in the PDF loop, line 222 in the image branch)
OcrExceptPropagate ==
    /\ pc = "ocr_except"
    /\ pc' = IF file_type = "PDF" THEN "pdf_except" ELSE "main_except"
    /\ UNCHANGED <<file_type, uploaded_file, exc, extracted_text, image, image_obj,
                   image_np, preprocessed_image, text, images, total_pages, i,
                   page_text, pdf_text, progress_bar, status_text, messages,
                   result_area, engine_log, raster_log>>

\* lines 77-87: both handlers show an error and return None
OcrExcept ==
    /\ pc = "ocr_except"
    /\ messages' = Append(messages,
                      IF exc = "TesseractNotFoundError" THEN ErrTesseract ELSE ErrOcr)
    /\ text' = None
    /\ exc' = "None"
    /\ pc' = "ocr_return"
    /\ UNCHANGED <<file_type, uploaded_file, extracted_text, image, image_obj,
                   image_np, preprocessed_image, images, total_pages, i, page_text,
                   pdf_text, progress_bar, status_text, result_area, engine_log,
                   raster_log>>

\* line 216: the image branch takes the return value
ReturnToImageBranch ==
    /\ pc = "ocr_return"
    /\ file_type = "Image"
    /\ extracted_text' = text
    /\ pc' = "display"
    /\ UNCHANGED <<file_type, uploaded_file, exc, image, image_obj, image_np,
                   preprocessed_image, text, images, total_pages, i, page_text,
                   pdf_text, progress_bar, status_text, messages, result_area,
                   engine_log, raster_log>>

\* line 118 with a retry: a page whose OCR failed is tried again
ReturnToPdfLoopRetry ==
    /\ pc = "ocr_return"
    /\ file_type = "PDF"
    /\ page_text' = text
    /\ pc' = IF text = None THEN "convert_L" ELSE "append_section"
    /\ UNCHANGED <<file_type, uploaded_file, exc, extracted_text, image, image_obj,
                   image_np, preprocessed_image, text, images, total_pages, i,
                   pdf_text, progress_bar, status_text, messages, result_area,
                   engine_log, raster_log>>

\* line 118: the PDF loop takes the return value
ReturnToPdfLoop ==
    /\ pc = "ocr_return"
    /\ file_type = "PDF"
    /\ page_text' = text
    /\ pc' = "append_section"
    /\ UNCHANGED <<file_type, uploaded_file, exc, extracted_text, image, image_obj,
                   image_np, preprocessed_image, text, images, total_pages, i,
                   pdf_text, progress_bar, status_text, messages, result_area,
                   engine_log, raster_log>>

\* ----------------------------------------------------- perform_ocr_on_pdf
\* line 103: the rasterizer returns the list of page images or raises
ConvertFromBytes ==
    /\ pc = "convert_from_bytes"
    /\ \/ \E n \in 0..MaxPages :
             /\ images' = Pages(n)
             /\ raster_log' = Append(raster_log, [exc |-> "None", pages |-> n])
             /\ pc' = "check_images"
             /\ UNCHANGED exc
       \/ \E e \in PdfExceptions :
             /\ raster_log' = Append(raster_log, [exc |-> e, pages |-> 0])
             /\ exc' = e
             /\ pc' = "pdf_except"
             /\ UNCHANGED images
    /\ UNCHANGED <<file_type, uploaded_file, extracted_text, image, image_obj,
                   image_np, preprocessed_image, text, total_pages, i, page_text,
                   pdf_text, progress_bar, status_text, messages, result_area,
                   engine_log>>

\* line 107 returning the empty string that line 97 initialised
NoImagesResultEmpty == <<>>

\* line 107: the value returned when the PDF gave no images
NoImagesResult == None

\* lines 105-107, 220: no images, warn and return
NoImages ==
    /\ pc = "check_images"
    /\ images = <<>>
    /\ messages' = Append(messages, WarnNoImages)
    /\ extracted_text' = NoImagesResult
    /\ pc' = "display"
    /\ UNCHANGED <<file_type, uploaded_file, exc, image, image_obj, image_np,
                   preprocessed_image, text, images, total_pages, i, page_text,
                   pdf_text, progress_bar, status_text, result_area, engine_log,
                   raster_log>>

\* lines 105, 110-112: set up the page loop
StartLoop ==
    /\ pc = "check_images"
    /\ images # <<>>
    /\ total_pages' = Len(images)
    /\ progress_bar' = <<[num |-> 0, den |-> 1]>>
    /\ status_text' = <<>>
    /\ i' = 0
    /\ pc' = "loop"
    /\ UNCHANGED <<file_type, uploaded_file, exc, extracted_text, image, image_obj,
                   image_np, preprocessed_image, text, images, page_text, pdf_text,
                   messages, result_area, engine_log, raster_log>>

\* lines 114-118: take the next page and call perform_ocr_on_image on it
NextPage ==
    /\ pc = "loop"
    /\ i < Len(images)
    /\ image' = images[i + 1]
    /\ status_text' = ProcessingStatus(i + 1, total_pages)
    /\ image_obj' = images[i + 1]
    /\ pc' = "convert_L"
    /\ UNCHANGED <<file_type, uploaded_file, exc, extracted_text, image_np,
                   preprocessed_image, text, images, total_pages, i, page_text,
                   pdf_text, progress_bar, messages, result_area, engine_log,
                   raster_log>>

\* lines 119-123: append the section of page i + 1
AppendSection ==
    /\ pc = "append_section"
    /\ pdf_text' = pdf_text \o PageSection(i + 1, page_text)
    /\ pc' = "progress"
    /\ UNCHANGED <<file_type, uploaded_file, exc, extracted_text, image, image_obj,
                   image_np, preprocessed_image, text, images, total_pages, i,
                   page_text, progress_bar, status_text, messages, result_area,
                   engine_log, raster_log>>

\* line 125 with the index in place of the page number
ProgressValueFromIndex(idx, total) == [num |-> idx, den |-> total]

\* line 125: the fraction (i + 1) / total_pages
ProgressValue(idx, total) == [num |-> idx + 1, den |-> total]

\* line 125, then the loop moves to the next index
UpdateProgress ==
    /\ pc = "progress"
    /\ progress_bar' = Append(progress_bar, ProgressValue(i, total_pages))
    /\ i' = i + 1
    /\ pc' = "loop"
    /\ UNCHANGED <<file_type, uploaded_file, exc, extracted_text, image, image_obj,
                   image_np, preprocessed_image, text, images, total_pages,
                   page_text, pdf_text, status_text, messages, result_area,
                   engine_log, raster_log>>

\* lines 127-128, 220: the loop is exhausted, return the text
PdfComplete ==
    /\ pc = "loop"
    /\ i >= Len(images)
    /\ status_text' = CompleteStatus
    /\ extracted_text' = pdf_text
    /\ pc' = "display"
    /\ UNCHANGED <<file_type, uploaded_file, exc, image, image_obj, image_np,
                   preprocessed_image, text, images, total_pages, i, page_text,
                   pdf_text, progress_bar, messages, result_area, engine_log,
                   raster_log>>

\* lines 130-146, 220: the three handlers show an error and return None
PdfExcept ==
    /\ pc = "pdf_except"
    /\ messages' = Append(messages,
                      IF exc = "ImportError" THEN ErrImport
                      ELSE IF exc = "PDFError" THEN ErrConvert
                      ELSE ErrPdfUnexpected)
    /\ extracted_text' = None
    /\ exc' = "None"
    /\ pc' = "display"
    /\ UNCHANGED <<file_type, uploaded_file, image, image_obj, image_np,
                   preprocessed_image, text, images, total_pages, i, page_text,
                   pdf_text, progress_bar, status_text, result_area, engine_log,
                   raster_log>>

\* ------------------------------------------------------------ the output
\* lines 226-231: the elif is tried only when extracted_text is None
Display ==
    /\ pc = "display"
    /\ IF extracted_text # None
       THEN /\ result_area' = extracted_text
            /\ UNCHANGED messages
       ELSE IF extracted_text = <<>>
            THEN /\ messages' = Append(messages, WarnNoText)
                 /\ UNCHANGED result_area
            ELSE UNCHANGED <<messages, result_area>>
    /\ pc' = "done"
    /\ UNCHANGED <<file_type, uploaded_file, exc, extracted_text, image, image_obj,
                   image_np, preprocessed_image, text, images, total_pages, i,
                   page_text, pdf_text, progress_bar, status_text, engine_log,
                   raster_log>>

\* the steps the script takes by itself once the button is clicked
Run ==
    \/ GetValue
    \/ ImageOpen
    \/ ShowImage
    \/ MainExcept
    \/ ConvertGray
    \/ AdaptiveThreshold
    \/ Sharpen
    \/ PreprocessReturn
    \/ PreprocessExcept
    \/ ImageToString
    \/ OcrExcept
    \/ ReturnToImageBranch
    \/ ReturnToPdfLoop
    \/ ConvertFromBytes
    \/ NoImages
    \/ StartLoop
    \/ NextPage
    \/ AppendSection
    \/ UpdateProgress
    \/ PdfComplete
    \/ PdfExcept
    \/ Display

Next ==
    \/ SelectFileType
    \/ UploadFile
    \/ ClickProcess
    \/ Run

Spec == Init /\ [][Next]_vars

\* the script is single threaded and runs to its end once started
FairSpec == Spec /\ WF_vars(Run)

\* ------------------------------------------- reading the output back
RECURSIVE ParseInt(_)
ParseInt(ds) == IF ds = <<>> THEN 0
                ELSE ParseInt(SubSeq(ds, 1, Len(ds) - 1)) * 10 + DigitVal(Last(ds))

\* the position of the last page header at or before p, 0 if there is none
RECURSIVE LastHeader(_, _)
LastHeader(s, p) == IF p = 0 THEN 0
                    ELSE IF s[p] = PageHdr THEN p
                    ELSE LastHeader(s, p - 1)

\* cut a string before every page header
RECURSIVE SplitSections(_)
SplitSections(s) ==
    IF s = <<>> THEN <<>>
    ELSE LET p == LastHeader(s, Len(s))
         IN  IF p = 0 THEN <<s>>
             ELSE SplitSections(SubSeq(s, 1, p - 1)) \o <<SubSeq(s, p, Len(s))>>

\* the position of the last digit of the run of digits that starts at p
RECURSIVE DigitsEnd(_, _)
DigitsEnd(c, p) == IF p <= Len(c) /\ IsDigit(c[p]) THEN DigitsEnd(c, p + 1) ELSE p - 1

Malformed == [num |-> -1, failed |-> TRUE, body |-> <<>>]

\* one section: its page number, whether it is the placeholder, its text
ParseSection(c) ==
    LET digitsEnd == DigitsEnd(c, 2)
    IN  IF ~(Len(c) >= 3 /\ c[1] = PageHdr /\ digitsEnd >= 2 /\ Len(c) > digitsEnd)
        THEN Malformed
        ELSE IF c[digitsEnd + 1] = FailTail /\ Len(c) = digitsEnd + 1
        THEN [num |-> ParseInt(SubSeq(c, 2, digitsEnd)), failed |-> TRUE, body |-> <<>>]
        ELSE IF c[digitsEnd + 1] = OkTail /\ Len(c) >= digitsEnd + 2 /\ Last(c) = SectionEnd
        THEN [num |-> ParseInt(SubSeq(c, 2, digitsEnd)), failed |-> FALSE,
              body |-> SubSeq(c, digitsEnd + 2, Len(c) - 1)]
        ELSE Malformed

Sections(s) == LET parts == SplitSections(s)
               IN  [k \in 1..Len(parts) |-> ParseSection(parts[k])]

Count(seq, P(_)) == Cardinality({k \in 1..Len(seq) : P(seq[k])})

IsOcrError(m) == m \in {ErrTesseract, ErrOcr}

IsPreprocessWarning(m) == m = WarnPreprocess

Raised(e) == e.exc # "None"

Unprocessed(e) == e.image.steps = <<>>

\* the section the k-th page must have, given what the engine did on it
ExpectedSection(k, e) ==
    IF ~Raised(e) /\ e.text # <<>>
    THEN [num |-> k, failed |-> FALSE, body |-> e.text]
    ELSE [num |-> k, failed |-> TRUE, body |-> <<>>]

PdfReturned == file_type = "PDF" /\ pc \in {"display", "done"}

Rasterized(n) == raster_log = <<[exc |-> "None", pages |-> n]>>

\* ----------------------------------------------------------- the claims
\* C1: for a PDF that rasterizes to N >= 1 pages the returned string is
\* exactly N page sections, numbered 1, 2, ..., N in this order, and the
\* section numbered k holds the text the OCR engine returned for page k
\* (the placeholder when the engine raised or returned no text).
C1_SectionsInPageOrder ==
    \A n \in 1..MaxPages :
        (PdfReturned /\ Rasterized(n)) =>
            LET secs == Sections(extracted_text)
            IN  /\ extracted_text # None
                /\ Len(secs) = n
                /\ \A k \in 1..n :
                      /\ secs[k].num = k
                      /\ \E j \in 1..Len(engine_log) : engine_log[j].image.id = k
                      /\ \A j \in 1..Len(engine_log) :
                            engine_log[j].image.id = k =>
                                secs[k] = ExpectedSection(k, engine_log[j])

C1_Witness ==
    /\ PdfReturned
    /\ Rasterized(3)
    /\ Raised(engine_log[1])
    /\ engine_log[2].text = <<"a", "a">>
    /\ engine_log[3].text = <<"a">>
    /\ Sections(extracted_text)[2].body = <<"a", "a">>
    /\ Sections(extracted_text)[3].body = <<"a">>

\* C2: when the OCR engine raises on a PDF page the exception is caught, an
\* OCR error message is shown for it, the placeholder section stands for
\* that page, and the loop goes on: the handler of the rasterization is
\* never reached from a page, the sections already appended stay, and the
\* loop ends with one section per page.
C2_PageFailureContinues ==
    file_type = "PDF" =>
        /\ Count(messages, IsOcrError)
              = Count(engine_log, Raised) - (IF pc = "ocr_except" THEN 1 ELSE 0)
        /\ pc = "pdf_except" => engine_log = <<>>
        /\ LET secs == Sections(pdf_text)
           IN  /\ Len(secs) = (IF pc = "progress" THEN i + 1 ELSE i)
               /\ \A k \in 1..Len(secs) :
                     /\ k <= Len(engine_log)
                     /\ secs[k] = ExpectedSection(k, engine_log[k])
               /\ (pc \in {"display", "done"} /\ total_pages >= 1) =>
                     /\ Len(engine_log) = total_pages
                     /\ Len(secs) = total_pages
                     /\ extracted_text = pdf_text

C2_Witness ==
    /\ file_type = "PDF"
    /\ pc = "done"
    /\ total_pages = 3
    /\ engine_log[1].text = <<"a">>
    /\ engine_log[2].exc = "TesseractNotFoundError"
    /\ engine_log[3].text = <<"a", "a">>
    /\ messages = <<ErrTesseract>>
    /\ Sections(result_area) = <<[num |-> 1, failed |-> FALSE, body |-> <<"a">>],
                                 [num |-> 2, failed |-> TRUE, body |-> <<>>],
                                 [num |-> 3, failed |-> FALSE, body |-> <<"a", "a">>]>>

\* C3: when the processing of a click has finished the user sees the result
\* area holding the returned text or at least one message, and a final
\* extracted_text of None comes with a message.
C3_ResultOrMessage ==
    pc = "done" =>
        /\ (result_area # None /\ result_area = extracted_text) \/ messages # <<>>
        /\ extracted_text = None => messages # <<>>

C3_Witness ==
    /\ pc = "done"
    /\ extracted_text = None
    /\ result_area = None
    /\ messages = <<ErrBeforeOcr>>

\* C4 (safety): in a run over N pages the j-th call of the OCR engine is on
\* page j, there is one call for each page handled so far, and once the
\* function has returned there were exactly N calls and N iterations.
C4_Inv ==
    file_type = "PDF" =>
        /\ Len(engine_log) <= total_pages
        /\ \A j \in 1..Len(engine_log) : engine_log[j].image.id = j
        /\ Len(engine_log) =
              (IF pc \in {"ocr_except", "ocr_return", "append_section", "progress"}
               THEN i + 1 ELSE i)
        /\ (pc \in {"display", "done"} /\ total_pages >= 1) =>
              /\ i = total_pages
              /\ Len(engine_log) = total_pages

\* C4: the OCR engine is called exactly once per page, in page order, with
\* no retry and no page skipped, and the run over the pages always ends.
C4_OncePerPageAndTerminates ==
    /\ []C4_Inv
    /\ (pc = "loop") ~> (pc = "done" /\ i = total_pages)

C4_Witness ==
    /\ file_type = "PDF"
    /\ pc = "done"
    /\ total_pages = 3
    /\ Len(engine_log) = 3
    /\ Raised(engine_log[1])
    /\ Raised(engine_log[2])
    /\ ~Raised(engine_log[3])

\* C5: preprocessing is attempted on every unit before the OCR engine is
\* called on it, and its steps are applied in the order grayscale, adaptive
\* threshold, sharpen: the engine sees either the image after the three
\* steps or, after a preprocessing warning, the original image.
C5_PreprocessBeforeOcr ==
    /\ IsPrefix(image_np.steps, PreprocessSteps)
    /\ pc = "adaptiveThreshold" =>
          image_np = [image_obj EXCEPT !.steps = SubSeq(PreprocessSteps, 1, 1)]
    /\ pc = "SHARPEN" =>
          image_np = [image_obj EXCEPT !.steps = SubSeq(PreprocessSteps, 1, 2)]
    /\ pc = "image_to_string" =>
          preprocessed_image \in {image_obj, [image_obj EXCEPT !.steps = PreprocessSteps]}
    /\ \A j \in 1..Len(engine_log) :
          engine_log[j].image.steps \in {<<>>, PreprocessSteps}
    /\ Count(messages, IsPreprocessWarning)
          = Count(engine_log, Unprocessed)
              + (IF pc = "image_to_string" /\ preprocessed_image.steps = <<>>
                 THEN 1 ELSE 0)

C5_Witness ==
    /\ file_type = "PDF"
    /\ pc = "done"
    /\ Len(engine_log) = 2
    /\ engine_log[1].image = [id |-> 1, steps |-> PreprocessSteps]
    /\ engine_log[2].image = [id |-> 2, steps |-> <<>>]
    /\ messages = <<WarnPreprocess>>

\* C6: when the extracted text is the empty string the warning "no text was
\* detected" is shown and the result area is not.
C6_EmptyTextWarns ==
    (pc = "done" /\ extracted_text = <<>>) =>
        /\ \E m \in 1..Len(messages) : messages[m] = WarnNoText
        /\ result_area = None

\* C7: perform_ocr_on_image raises nothing to its caller; it returns the
\* engine's text when the engine call succeeds and None, after an error
\* message, exactly when the engine call raises; a failure of preprocessing
\* gives a warning and the engine then runs on the original image.
C7_OcrOnImageTotal ==
    /\ pc \in {"main_except", "pdf_except"} => image_obj = NoImage
    /\ pc = "image_to_string" =>
          \/ preprocessed_image = [image_obj EXCEPT !.steps = PreprocessSteps]
          \/ /\ preprocessed_image = image_obj
             /\ messages # <<>>
             /\ Last(messages) = WarnPreprocess
    /\ pc = "ocr_except" =>
          /\ engine_log # <<>>
          /\ Last(engine_log) = [image |-> preprocessed_image, exc |-> exc, text |-> <<>>]
          /\ exc \in OcrExceptions
    /\ pc = "ocr_return" =>
          /\ engine_log # <<>>
          /\ Last(engine_log).image = preprocessed_image
          /\ text = None <=> Raised(Last(engine_log))
          /\ ~Raised(Last(engine_log)) => text = Last(engine_log).text
          /\ Raised(Last(engine_log)) =>
                /\ messages # <<>>
                /\ Last(messages) =
                      (IF Last(engine_log).exc = "TesseractNotFoundError"
                       THEN ErrTesseract ELSE ErrOcr)

C7_Witness ==
    /\ pc = "ocr_return"
    /\ file_type = "Image"
    /\ text = None
    /\ messages = <<WarnPreprocess, ErrOcr>>
    /\ engine_log = <<[image |-> image_obj, exc |-> "Exception", text |-> <<>>]>>

\* C8: perform_ocr_on_pdf returns None exactly when the rasterization
\* raised or gave zero pages; with zero pages the warning is shown, the
\* OCR engine is not called and no progress bar is created; with at least
\* one page the result is a non-empty string, also when every page failed,
\* and the result area shows it.
C8_NoneIffNoPages ==
    (PdfReturned /\ raster_log # <<>>) =>
        /\ extracted_text = None
              <=> (Raised(raster_log[1]) \/ raster_log[1].pages = 0)
        /\ Rasterized(0) =>
              /\ messages = <<WarnNoImages>>
              /\ engine_log = <<>>
              /\ progress_bar = <<>>
              /\ status_text = None
        /\ (~Raised(raster_log[1]) /\ raster_log[1].pages >= 1) =>
              /\ extracted_text # None
              /\ Len(extracted_text) > 0
              /\ pc = "done" => result_area = extracted_text

C8_Witness ==
    /\ file_type = "PDF"
    /\ pc = "done"
    /\ Rasterized(2)
    /\ Raised(engine_log[1])
    /\ Raised(engine_log[2])
    /\ result_area = PageSection(1, None) \o PageSection(2, None)

\* C9: the progress bar starts at 0, is set to i/N right after the section
\* of the i-th page has been appended, never decreases, is 1 exactly when
\* the last page has been handled, and the status "PDF Processing
\* Complete." is set only when the progress is 1.
C9_Progress ==
    (file_type = "PDF" /\ total_pages >= 1) =>
        /\ Len(progress_bar) = i + 1
        /\ progress_bar[1] = [num |-> 0, den |-> 1]
        /\ \A k \in 1..i : progress_bar[k + 1] = [num |-> k, den |-> total_pages]
        /\ Len(Sections(pdf_text)) = (IF pc = "progress" THEN i + 1 ELSE i)
        /\ \A k \in 1..(Len(progress_bar) - 1) :
              progress_bar[k].num * progress_bar[k + 1].den
                 <= progress_bar[k + 1].num * progress_bar[k].den
        /\ Last(progress_bar).num = Last(progress_bar).den <=> i = total_pages
        /\ status_text = CompleteStatus =>
              Last(progress_bar) = [num |-> total_pages, den |-> total_pages]

C9_Witness ==
    /\ file_type = "PDF"
    /\ pc = "done"
    /\ status_text = CompleteStatus
    /\ total_pages = 3
    /\ Raised(engine_log[2])
    /\ progress_bar = <<[num |-> 0, den |-> 1], [num |-> 1, den |-> 3],
                        [num |-> 2, den |-> 3], [num |-> 3, den |-> 3]>>
====
